---- MODULE Spec2Model ----
(***************************************************************************)
(* A model of youauth's FaceRecognizer (src/youauth/face_recognizer.js).    *)
(*                                                                         *)
(* Strings are sequences of lexical tokens, so that the two regular        *)
(* expressions of loadImage can be evaluated token by token.  Numbers      *)
(* with a fractional part are scaled by 100 (0.63 is 63); distances are    *)
(* compared through their squares.                                         *)
(*                                                                         *)
(* Three specifications share the variables:                               *)
(*   SpecLoad   loadImage on file paths and data URIs                      *)
(*   SpecLabel  labelDescriptors, saveDescriptors, loadDescriptors         *)
(*   SpecMatch  detect, getMatches, getMatchedLabels, drawFaceDetections   *)
(***************************************************************************)
EXTENDS Integers, Sequences, FiniteSets, TLC

VARIABLES
    \* ---- loadImage ----
    image,          \* the argument of the last loadImage call
    tensor,         \* the implicit global written at face_recognizer.js:192
    loadOutcome,    \* what the last loadImage call did
    \* ---- labelDescriptors / saveDescriptors / loadDescriptors ----
    labels,         \* argument of labelDescriptors
    refImages,      \* argument of labelDescriptors
    returned,       \* what labelDescriptors returned: "none", "undefined", "promise"
    taskState,      \* per pair: the position of its async callback
    values,         \* per pair: what its callback resolved with
    promiseState,   \* the Promise.all promise: "none", "pending", "fulfilled", "rejected"
    promiseValue,   \* the array the promise was fulfilled with
    errorLog,       \* console.error lines
    imagesLoaded,   \* how many times loadImage was called
    detectionsRun,  \* how many times detectSingleFace was called
    lastSettled,    \* the pair whose task settled last (0: none yet)
    file,           \* the text saveDescriptors wrote
    loaded,         \* what loadDescriptors returned or threw
    \* ---- detect / getMatches / getMatchedLabels / drawFaceDetections ----
    detectionResults,
    labeledFaceDescriptors,
    matches,
    matchedLabels,  \* the implicit global written at face_recognizer.js:113
    label,          \* the implicit global written at face_recognizer.js:117
    drawn           \* what drawFaceDetections did

varsLoad == <<image, tensor, loadOutcome>>
varsLabel == <<labels, refImages, returned, taskState, values, promiseState,
               promiseValue, errorLog, imagesLoaded, detectionsRun, lastSettled,
               file, loaded>>
varsMatch == <<detectionResults, labeledFaceDescriptors, matches, matchedLabels,
               label, drawn>>
vars == <<varsLoad, varsLabel, varsMatch>>

\* JavaScript's undefined and JSON's null, as values of their own kind; an
\* absent string, byte string or array is the empty sequence.
Undefined == [kind |-> "undefined"]
Null == [kind |-> "null"]
Pending == [kind |-> "pending"]

-----------------------------------------------------------------------------
\* Bounds of the model.

\* Longest labels / refImages array passed to labelDescriptors.
MaxPairs == 3
\* Most faces detected in one target image.
MaxFaces == 3
\* Most labeled descriptors handed to getMatches.
MaxRefs == 2
\* Most payload tokens of a data URI.
MaxPayload == 1

-----------------------------------------------------------------------------
\* Strings as token sequences, and the character classes the regular
\* expressions of face_recognizer.js:12 and :179 use.

Space == " "
\* \w+
WordTokens == {"image", "text", "png", "plain", "charset", "base64", "Y2Fw", "d2FsbA"}
DashTokens == {"x-icon", "us-ascii"}
DigitDashTokens == {"utf-8"}
PathTokens == {"cap.jpg", "wall.jpg", "biden.jpg", "gone.jpg"}
Tokens == {Space, "data:", "DATA:", "/", ";", "=", ","}
              \cup WordTokens \cup DashTokens \cup DigitDashTokens \cup PathTokens

\* \s
IsSpace(t) == t = Space
\* [a-z]+ under the i flag
AlphaTokens == {"image", "text", "png", "plain", "charset", "base64"}
\* [a-z0-9\-]+ under the i flag
AlnumDashTokens == WordTokens \cup DashTokens \cup DigitDashTokens
\* [a-z\-]+ under the i flag
AlphaDashTokens == AlphaTokens \cup DashTokens
\* [a-z0-9\!\$\&\'\,\(\)\*\+\,\;\=\-\.\_\~\:\@\/\?\%\s]* under the i flag
IsPayload(t) == t \in Tokens

\* The positions a run of one or more tokens of class S, starting at
\* position i of s, can end before.
Run(s, i, S) == {j \in (i + 1)..(Len(s) + 1) : \A k \in i..(j - 1) : s[k] \in S}

\* s has the literal token t at position i.
At(s, i, t) == i <= Len(s) /\ s[i] = t

\* Positions after ([a-z]+\/[a-z0-9\-]+(;[a-z\-]+\=[a-z\-]+)?)? matched from i.
AfterMedia(s, i) ==
    LET afterType == Run(s, i, AlphaTokens)
        afterSlash == {j + 1 : j \in {k \in afterType : At(s, k, "/")}}
        afterSub == UNION {Run(s, j, AlnumDashTokens) : j \in afterSlash}
        afterName == UNION {Run(s, j + 1, AlphaDashTokens) :
                            j \in {k \in afterSub : At(s, k, ";")}}
        afterEq == {j + 1 : j \in {k \in afterName : At(s, k, "=")}}
        afterParam == UNION {Run(s, j, AlphaDashTokens) : j \in afterEq}
    IN  {i} \cup afterSub \cup afterParam

\* Positions after (;base64)? matched from each position of ps.
AfterBase64I(s, ps) ==
    ps \cup {j + 2 : j \in {k \in ps : At(s, k, ";") /\ At(s, k + 1, "base64")}}

\* isDataURI.test(s): the pattern of face_recognizer.js:12.
isDataURI(s) ==
    \E lead \in 0..Len(s) :
        /\ \A k \in 1..lead : IsSpace(s[k])
        /\ (At(s, lead + 1, "data:") \/ At(s, lead + 1, "DATA:"))
        /\ \E c \in AfterBase64I(s, AfterMedia(s, lead + 2)) :
              /\ At(s, c, ",")
              /\ \A k \in (c + 1)..Len(s) : IsPayload(s[k])

\* Positions after ^data:image\/\w+;base64, matched from the start of s.
HeaderEnds(s) ==
    IF At(s, 1, "data:") /\ At(s, 2, "image") /\ At(s, 3, "/")
    THEN {j + 3 : j \in {k \in Run(s, 4, WordTokens) :
                          At(s, k, ";") /\ At(s, k + 1, "base64") /\ At(s, k + 2, ",")}}
    ELSE {}

\* s.replace(/^data:image\/\w+;base64,/, ""): the text after the header when
\* the pattern matches (\w+ is greedy), s itself when it does not.
removeHeader(s) ==
    LET ends == HeaderEnds(s)
    IN  IF ends = {} THEN s
        ELSE LET e == CHOOSE x \in ends : \A y \in ends : y <= x
             IN  SubSeq(s, e, Len(s))

\* The payload of a data URI: the text after its first comma.
Payload(s) ==
    LET commas == {k \in 1..Len(s) : s[k] = ","}
        c == CHOOSE x \in commas : \A y \in commas : x <= y
    IN  SubSeq(s, c + 1, Len(s))

\* Buffer.from(data, 'base64'): characters outside the base64 alphabet are
\* skipped.  The bytes are written as the tokens that carry alphabet
\* characters, in order: equal token sequences, equal bytes.
CarriesBase64(t) == t \notin {Space, ";", ",", "="}
Base64Decode(data) == SelectSeq(data, CarriesBase64)

\* The files on disk: a path's bytes, written like decoded payloads.
FilePaths == {<<"cap.jpg">>, <<"wall.jpg">>, <<"biden.jpg">>}
FileBytes(path) ==
    CASE path = <<"cap.jpg">> -> <<"Y2Fw">>
      [] path = <<"wall.jpg">> -> <<"d2FsbA">>
      [] path = <<"biden.jpg">> -> <<"Y2Fw", "d2FsbA">>

\* The byte strings that are well-formed images.
ImageBytes == {<<"Y2Fw">>, <<"d2FsbA">>, <<"Y2Fw", "d2FsbA">>}

\* loadImage(image): the path read from the file system (empty: none), the
\* bytes handed to tf.node.decodeImage and the outcome.  fs.readFileSync
\* throws for a path that does not resolve, decodeImage for malformed bytes.
loadImage(img) ==
    IF isDataURI(img)
    THEN LET buf == Base64Decode(removeHeader(img))
         IN  [fsRead |-> <<>>, buf |-> buf,
              status |-> IF buf \in ImageBytes THEN "tensor" ELSE "threw",
              tensor |-> IF buf \in ImageBytes THEN buf ELSE <<>>]
    ELSE IF img \in FilePaths
         THEN [fsRead |-> img, buf |-> FileBytes(img),
               status |-> "tensor", tensor |-> FileBytes(img)]
         ELSE [fsRead |-> img, buf |-> <<>>, status |-> "threw", tensor |-> <<>>]

\* The strings handed to loadImage: data URIs put together from optional
\* parts, and file paths.
Leads == {<<>>, <<Space>>}
Schemes == {<<"data:">>, <<"DATA:">>}
Medias == {<<>>, <<"image", "/", "png">>, <<"image", "/", "x-icon">>,
           <<"text", "/", "plain">>}
Params == {<<>>, <<";", "charset", "=", "us-ascii">>, <<";", "charset", "=", "utf-8">>}
Encodings == {<<>>, <<";", "base64">>}
Payloads == UNION {[1..n -> {"Y2Fw", "d2FsbA"}] : n \in 0..MaxPayload}
DataURIs == {l \o sc \o m \o p \o e \o <<",">> \o b :
               l \in Leads, sc \in Schemes, m \in Medias, p \in Params,
               e \in Encodings, b \in Payloads}
ImageInputs == DataURIs \cup {<<t>> : t \in PathTokens}

-----------------------------------------------------------------------------
\* SpecLoad: calls of loadImage.

InitLoad ==
    /\ image = <<>>
    /\ tensor = <<>>
    /\ loadOutcome = [fsRead |-> <<>>, buf |-> <<>>, status |-> "none", tensor |-> <<>>]

InitLabel ==
    /\ labels = <<>>
    /\ refImages = <<>>
    /\ returned = "none"
    /\ taskState = <<>>
    /\ values = <<>>
    /\ promiseState = "none"
    /\ promiseValue = <<>>
    /\ errorLog = <<>>
    /\ imagesLoaded = 0
    /\ detectionsRun = 0
    /\ lastSettled = 0
    /\ file = [written |-> FALSE, text |-> <<>>]
    /\ loaded = [status |-> "none", value |-> <<>>]

InitMatch ==
    /\ detectionResults = [status |-> "none", value |-> <<>>]
    /\ labeledFaceDescriptors = <<>>
    /\ matches = [status |-> "none", value |-> <<>>]
    /\ matchedLabels = [status |-> "none", value |-> <<>>]
    /\ label = ""
    /\ drawn = [status |-> "none", canvas |-> <<>>,
                original |-> [shape |-> <<>>, pixels |-> <<>>]]

Init == InitLoad /\ InitLabel /\ InitMatch

\* await recognizer.loadImage(img): the global tensor is written only when
\* tf.node.decodeImage returns.
LoadImage(img) ==
    LET r == loadImage(img)
    IN  /\ image' = img
        /\ loadOutcome' = r
        /\ tensor' = IF r.status = "tensor" THEN r.tensor ELSE tensor
        /\ UNCHANGED <<varsLabel, varsMatch>>

NextLoad == \E img \in ImageInputs : LoadImage(img)

SpecLoad == Init /\ [][NextLoad]_vars

\* C9: every input that matches the data-URI pattern reaches the decoder as
\* the base64 decoding of its payload alone, and the file system is not read;
\* every input that does not match is read from the file system as a path.
C9_HeaderRemovedForEveryDataURI ==
    loadOutcome.status # "none" =>
        IF isDataURI(image)
        THEN /\ loadOutcome.fsRead = <<>>
             /\ loadOutcome.buf = Base64Decode(Payload(image))
        ELSE loadOutcome.fsRead = image

-----------------------------------------------------------------------------
\* Descriptors.  A face descriptor is a Float32Array; its components are
\* written scaled by 100.

\* Math.fround on the scaled integers: those of magnitude up to 2^24 are
\* float32 values, larger ones round to an even neighbour.
fround(x) ==
    IF -16777216 <= x /\ x <= 16777216 THEN x ELSE (x \div 2) * 2

\* new faceAPI.LabeledFaceDescriptors(label, [descriptor])
LabeledFaceDescriptors(l, ds) ==
    [kind |-> "LabeledFaceDescriptors", label |-> l, descriptors |-> ds]

\* faceAPI.detectSingleFace(img, options).withFaceLandmarks()
\* .withFaceDescriptor(): the detection of the most confident face of the
\* image, undefined when it holds none.  cap.jpg and the biden picture hold
\* one face each, wall.jpg holds none.
detectSingleFace(img) ==
    CASE img = <<"Y2Fw">> -> [kind |-> "detection", descriptor |-> <<12, -5>>]
      [] img = <<"Y2Fw", "d2FsbA">> -> [kind |-> "detection", descriptor |-> <<75, 40>>]
      [] OTHER -> Undefined

\* The reference images handed to labelDescriptors: three paths (one of
\* them missing on disk) and one data URI.
RefImageSet ==
    {<<"cap.jpg">>, <<"wall.jpg">>, <<"gone.jpg">>,
     <<"data:", "image", "/", "png", ";", "base64", ",", "Y2Fw", "d2FsbA">>}
LabelSet == {"cap", "biden"}
SeqsUpTo(S, n) == UNION {[1..k -> S] : k \in 0..n}

\* refImages[i] in JavaScript: undefined past the end of the array, and
\* loadImage(undefined) reads the path "undefined".
RefAt(rs, i) == IF i <= Len(rs) THEN rs[i] ELSE <<"undefined">>

\* The check of face_recognizer.js:53, and the check left out.
LengthsDifferUnchecked(ls, rs) == FALSE
LengthsDiffer(ls, rs) == Len(ls) # Len(rs)

\* Promise.all keeps each callback's value at the index of its promise; the
\* variant collects the values in the order the callbacks return.
SettleInArrivalOrder(vals, i, v) ==
    LET free == {k \in DOMAIN vals : vals[k] = Pending}
    IN  [vals EXCEPT ![CHOOSE k \in free : \A m \in free : k <= m] = v]
Settle(vals, i, v) == [vals EXCEPT ![i] = v]

\* Promise.all rejects as soon as one of its promises rejects; a settled
\* promise stays as it is.  The variant waits for the others instead.
OnRejectionIgnored(state) == state
OnRejection(state) == IF state = "pending" THEN "rejected" ELSE state

\* Promise.all fulfils when every promise has fulfilled.
AllFulfilled(ts) == \A i \in DOMAIN ts : ts[i].pc = "fulfilled"

\* labelDescriptors(labels, refImages), up to its return.  labels.map calls
\* the async callback of every pair in index order; each call runs up to its
\* first await, that is through the whole of loadImage, which awaits nothing.
LabelDescriptors(ls, rs) ==
    /\ returned = "none"
    /\ labels' = ls
    /\ refImages' = rs
    /\ IF LengthsDiffer(ls, rs)
       THEN /\ errorLog' = Append(errorLog, "Labels and images not aligned!")
            /\ returned' = "undefined"
            /\ UNCHANGED <<taskState, values, promiseState, promiseValue, imagesLoaded>>
       ELSE LET n == Len(ls)
                loads == [i \in 1..n |-> loadImage(RefAt(rs, i))]
            IN  /\ returned' = "promise"
                /\ taskState' = [i \in 1..n |->
                                   [pc |-> IF loads[i].status = "threw"
                                           THEN "loadThrew" ELSE "awaitLoad",
                                    img |-> loads[i].tensor]]
                /\ values' = [i \in 1..n |-> Pending]
                /\ imagesLoaded' = imagesLoaded + n
                /\ promiseState' = IF n = 0 THEN "fulfilled" ELSE "pending"
                /\ promiseValue' = <<>>
                /\ UNCHANGED errorLog
    /\ UNCHANGED <<detectionsRun, lastSettled, file, loaded, varsLoad, varsMatch>>

\* The callback of pair i resumes after `await this.loadImage(...)` with a
\* thrown load: its promise rejects, and Promise.all with it.
LoadRejected(i) ==
    /\ i \in DOMAIN taskState
    /\ taskState[i].pc = "loadThrew"
    /\ taskState' = [taskState EXCEPT ![i].pc = "rejected"]
    /\ lastSettled' = i
    /\ promiseState' = OnRejection(promiseState)
    /\ UNCHANGED <<labels, refImages, returned, values, promiseValue, errorLog,
                   imagesLoaded, detectionsRun, file, loaded, varsLoad, varsMatch>>

\* The callback of pair i resumes with its tensor, awaits the detection and
\* returns: undefined when no face was detected, a LabeledFaceDescriptors
\* otherwise.  The callbacks share no state, so the rest of one callback is
\* one step; the steps of different callbacks come in any order.
DetectionDone(i) ==
    /\ i \in DOMAIN taskState
    /\ taskState[i].pc = "awaitLoad"
    /\ LET result == detectSingleFace(taskState[i].img)
           v == IF result = Undefined
                THEN Undefined
                ELSE LabeledFaceDescriptors(labels[i], <<result.descriptor>>)
           ts == [taskState EXCEPT ![i].pc = "fulfilled"]
           vs == Settle(values, i, v)
       IN  /\ errorLog' = IF result = Undefined
                          THEN Append(errorLog, "No faces detected.")
                          ELSE errorLog
           /\ taskState' = ts
           /\ values' = vs
           /\ detectionsRun' = detectionsRun + 1
           /\ lastSettled' = i
           /\ IF AllFulfilled(ts) /\ promiseState = "pending"
              THEN /\ promiseState' = "fulfilled"
                   /\ promiseValue' = vs
              ELSE UNCHANGED <<promiseState, promiseValue>>
    /\ UNCHANGED <<labels, refImages, returned, imagesLoaded, file, loaded,
                   varsLoad, varsMatch>>

-----------------------------------------------------------------------------
\* JSON.  A number is written as its decimal numeral, a sequence of
\* characters; an object or array keeps its shape.

DigitChars == <<"0", "1", "2", "3", "4", "5", "6", "7", "8", "9">>
DigitValue(c) == CHOOSE d \in 0..9 : DigitChars[d + 1] = c

RECURSIVE NaturalToString(_)
NaturalToString(n) ==
    IF n < 10 THEN <<DigitChars[n + 1]>>
    ELSE NaturalToString(n \div 10) \o <<DigitChars[(n % 10) + 1]>>

\* JSON.stringify of a number.
NumberToString(x) == IF x < 0 THEN <<"-">> \o NaturalToString(-x) ELSE NaturalToString(x)

RECURSIVE StringToNatural(_)
StringToNatural(t) ==
    IF Len(t) = 0 THEN 0
    ELSE 10 * StringToNatural(SubSeq(t, 1, Len(t) - 1)) + DigitValue(t[Len(t)])

\* JSON.parse of a numeral.
StringToNumber(t) ==
    IF Len(t) > 0 /\ t[1] = "-" THEN -StringToNatural(Tail(t)) ELSE StringToNatural(t)

\* LabeledFaceDescriptors.prototype.toJSON followed by JSON.stringify:
\* {"label": ..., "descriptors": [[...]]}.
ObjectToJSON(o) ==
    [kind |-> "object", label |-> o.label,
     descriptors |-> [k \in DOMAIN o.descriptors |->
                        [j \in DOMAIN o.descriptors[k] |->
                           NumberToString(o.descriptors[k][j])]]]

\* JSON.stringify(array): an undefined element is written as null.
JSONstringify(arr) ==
    [i \in DOMAIN arr |-> IF arr[i] = Undefined THEN Null ELSE ObjectToJSON(arr[i])]

\* JSON.parse(text)
JSONparse(text) ==
    [i \in DOMAIN text |->
       IF text[i] = Null THEN Null
       ELSE [kind |-> "object", label |-> text[i].label,
             descriptors |-> [k \in DOMAIN text[i].descriptors |->
                                [j \in DOMAIN text[i].descriptors[k] |->
                                   StringToNumber(text[i].descriptors[k][j])]]]]

\* new Float32Array(content.descriptors[0])
Float32Array(numbers) == [j \in DOMAIN numbers |-> fround(numbers[j])]

\* loadDescriptors(jsonString).  content.descriptors throws a TypeError when
\* content is null; forEach stops there, with the entries before it already
\* stored in the global array.
loadDescriptors(jsonString) ==
    LET contents == JSONparse(jsonString)
        nulls == {i \in DOMAIN contents : contents[i] = Null}
        built == [i \in DOMAIN contents |->
                    IF contents[i] = Null THEN Null
                    ELSE LabeledFaceDescriptors(contents[i].label,
                             <<Float32Array(contents[i].descriptors[1])>>)]
    IN  IF nulls = {}
        THEN [status |-> "returned", value |-> built]
        ELSE LET first == CHOOSE i \in nulls : \A j \in nulls : i <= j
             IN  [status |-> "threw", value |-> SubSeq(built, 1, first - 1)]

\* saveDescriptors(labeledFaceDescriptors, filePath), given the array the
\* promise of labelDescriptors was fulfilled with.
SaveDescriptors ==
    /\ promiseState = "fulfilled"
    /\ ~file.written
    /\ file' = [written |-> TRUE, text |-> JSONstringify(promiseValue)]
    /\ UNCHANGED <<labels, refImages, returned, taskState, values, promiseState,
                   promiseValue, errorLog, imagesLoaded, detectionsRun, lastSettled,
                   loaded, varsLoad, varsMatch>>

\* loadDescriptors applied to the text of the saved file.
LoadDescriptors ==
    /\ file.written
    /\ loaded.status = "none"
    /\ loaded' = loadDescriptors(file.text)
    /\ UNCHANGED <<labels, refImages, returned, taskState, values, promiseState,
                   promiseValue, errorLog, imagesLoaded, detectionsRun, lastSettled,
                   file, varsLoad, varsMatch>>

\* The one call of labelDescriptors of a run, on any arguments.
CallLabelDescriptors ==
    /\ returned = "none"
    /\ \E ls \in SeqsUpTo(LabelSet, MaxPairs), rs \in SeqsUpTo(RefImageSet, MaxPairs) :
          LabelDescriptors(ls, rs)

NextLabel ==
    \/ CallLabelDescriptors
    \/ \E i \in 1..MaxPairs : LoadRejected(i)
    \/ \E i \in 1..MaxPairs : DetectionDone(i)
    \/ SaveDescriptors
    \/ LoadDescriptors

SpecLabel == Init /\ [][NextLabel]_vars

-----------------------------------------------------------------------------
\* Properties of labelDescriptors, saveDescriptors and loadDescriptors.

\* Pair i's reference image loads and holds a face.
HasFace(i) ==
    LET r == loadImage(refImages[i])
    IN  r.status = "tensor" /\ detectSingleFace(r.tensor) # Undefined
FacePairs == {i \in 1..Len(refImages) : HasFace(i)}
EveryImageHasFace == FacePairs = 1..Len(refImages)

\* C1: with labels and refImages of equal length and a face in every image,
\* the array the promise is fulfilled with has the length of labels, and its
\* element i is the labeled descriptor of pair i (label labels[i], the
\* descriptor of refImages[i]), in whatever order the tasks completed.
C1_OutputFollowsInputOrder ==
    (promiseState = "fulfilled" /\ EveryImageHasFace) =>
        /\ Len(promiseValue) = Len(labels)
        /\ \A i \in 1..Len(labels) :
              /\ promiseValue[i].kind = "LabeledFaceDescriptors"
              /\ promiseValue[i].label = labels[i]
              /\ promiseValue[i].descriptors =
                    <<detectSingleFace(loadImage(refImages[i]).tensor).descriptor>>

\* The promise is fulfilled for three pairs with faces, the labels differ,
\* and the first pair's task was the last to complete.
C1_Witness ==
    /\ promiseState = "fulfilled"
    /\ EveryImageHasFace
    /\ Len(labels) = 3
    /\ labels[1] # labels[2]
    /\ refImages[1] # refImages[3]
    /\ lastSettled = 1

\* C2: when labels and refImages differ in length, labelDescriptors logs
\* the validation error and returns undefined: no image was loaded, no
\* detection run, no task started, and there is no promise and no array.
C2_MismatchDoesNoWork ==
    Len(labels) # Len(refImages) =>
        /\ returned = "undefined"
        /\ errorLog = <<"Labels and images not aligned!">>
        /\ imagesLoaded = 0
        /\ detectionsRun = 0
        /\ taskState = <<>>
        /\ promiseState = "none"
        /\ promiseValue = <<>>
        /\ ~file.written

\* labelDescriptors has returned from a call with two labels and one image.
C2_Witness ==
    /\ returned = "undefined"
    /\ Len(labels) = 2
    /\ Len(refImages) = 1

\* C3: the array the promise is fulfilled with holds one labeled descriptor
\* for each pair whose image had a face and no entry for the others.
C3_NoFacePairsOmitted ==
    promiseState = "fulfilled" =>
        /\ Len(promiseValue) = Cardinality(FacePairs)
        /\ \A k \in 1..Len(promiseValue) :
              promiseValue[k].kind = "LabeledFaceDescriptors"

\* What the code does instead: the array keeps the length of labels, with
\* undefined at the index of each pair without a face and the pair's
\* labeled descriptor at every other index; the siblings are not aborted.
NoFacePairsLeftUndefined ==
    promiseState = "fulfilled" =>
        /\ Len(promiseValue) = Len(labels)
        /\ \A i \in 1..Len(labels) :
              IF HasFace(i)
              THEN /\ promiseValue[i].kind = "LabeledFaceDescriptors"
                   /\ promiseValue[i].label = labels[i]
              ELSE promiseValue[i] = Undefined

\* C7: loadDescriptors applied to the text saveDescriptors wrote for a
\* non-empty array returned by labelDescriptors returns an array of the same
\* length and order, with the same labels and equal embedding vectors.
C7_RoundTrip ==
    (loaded.status # "none" /\ Len(promiseValue) > 0) =>
        /\ loaded.status = "returned"
        /\ Len(loaded.value) = Len(promiseValue)
        /\ \A i \in 1..Len(promiseValue) :
              /\ promiseValue[i].kind = "LabeledFaceDescriptors"
              /\ loaded.value[i].label = promiseValue[i].label
              /\ loaded.value[i].descriptors = promiseValue[i].descriptors

\* The round trip does hold for the arrays without an undefined element.
RoundTripOfLabeledDescriptors ==
    (loaded.status # "none" /\ EveryImageHasFace) =>
        /\ loaded.status = "returned"
        /\ loaded.value = promiseValue

\* C10: the promise is fulfilled only when every pair's load and detection
\* completed without throwing; once the load of one pair has thrown the
\* promise is never fulfilled, and once that pair's task has rejected the
\* promise is rejected and carries no array, whatever the siblings did.
C10_OneThrownLoadRejectsTheBatch ==
    /\ promiseState = "fulfilled" =>
          \A i \in DOMAIN taskState : taskState[i].pc = "fulfilled"
    /\ (\E i \in DOMAIN taskState : taskState[i].pc \in {"loadThrew", "rejected"}) =>
          promiseState # "fulfilled"
    /\ (\E i \in DOMAIN taskState : taskState[i].pc = "rejected") =>
          /\ promiseState = "rejected"
          /\ promiseValue = <<>>
          /\ ~file.written

\* The promise is rejected although a sibling pair, whose task completed
\* after the rejection, resolved with a labeled descriptor.
C10_Witness ==
    /\ promiseState = "rejected"
    /\ \E i, j \in DOMAIN taskState :
          /\ taskState[i].pc = "rejected"
          /\ taskState[j].pc = "fulfilled"
          /\ values[j].kind = "LabeledFaceDescriptors"
          /\ lastSettled = j

-----------------------------------------------------------------------------
\* SpecMatch: detect, getMatches, getMatchedLabels, drawFaceDetections.

\* The constructor's thresholds (face_recognizer.js:26 and :28), times 100.
minConfidence == 80
distanceThreshold == 63

\* The methods of FaceRecognizer.prototype (face_recognizer.js:34-199).
FaceRecognizerMethods ==
    {"labelDescriptors", "loadDescriptors", "getMatchedLabels", "detect",
     "getMatches", "saveDescriptors", "saveImageFile", "saveTensorJPG",
     "loadImage", "drawFaceDetections"}

\* The tensor of the target image, and the faces that may be detected in
\* it: a bounding box and a descriptor each.
TargetTensor == [shape |-> <<48, 64, 3>>, pixels |-> <<"d2FsbA", "Y2Fw">>]
Box(x, y, w, h) == [_x |-> x, _y |-> y, _width |-> w, _height |-> h]
FaceSet ==
    {[detection |-> [box |-> Box(4, 6, 10, 12)], descriptor |-> <<0, 0>>],
     [detection |-> [box |-> Box(30, 6, 10, 12)], descriptor |-> <<45, 0>>],
     [detection |-> [box |-> Box(4, 30, 9, 9)], descriptor |-> <<63, 0>>],
     [detection |-> [box |-> Box(30, 30, 9, 9)], descriptor |-> <<50, 50>>]}

\* What getMatches may be handed as labeled descriptors: elements of the
\* arrays labelDescriptors and loadDescriptors return, undefined included.
RefLabelSet == {"cap", "biden", "unknown"}
RefDescriptorSet == {<<0, 0>>, <<0, 80>>}
RefSet == {LabeledFaceDescriptors(l, <<d>>) : l \in RefLabelSet, d \in RefDescriptorSet}
              \cup {Undefined}

\* The square of faceAPI.euclideanDistance(a, b), in units of 1/100 squared.
RECURSIVE SumOfSquares(_, _)
SumOfSquares(a, b) ==
    IF Len(a) = 0 THEN 0
    ELSE (a[1] - b[1]) * (a[1] - b[1]) + SumOfSquares(Tail(a), Tail(b))

\* faceAPI.FaceMatch: a label and a distance (kept as its square).
FaceMatch(l, d) == [_label |-> l, _distance |-> d]

\* new faceAPI.FaceMatcher(inputs, threshold) throws for an empty array and
\* for an element that is neither a LabeledFaceDescriptors nor a descriptor.
FaceMatcherThrows(inputs) ==
    \/ Len(inputs) = 0
    \/ \E i \in 1..Len(inputs) : inputs[i].kind # "LabeledFaceDescriptors"

\* FaceMatcher.matchDescriptor: labeledDescriptors.map(...).reduce((best,
\* curr) => best.distance < curr.distance ? best : curr).  Each labeled
\* descriptor holds one descriptor, so its mean distance is that
\* descriptor's distance.
RECURSIVE matchDescriptor(_, _)
matchDescriptor(lfds, query) ==
    LET n == Len(lfds)
        curr == FaceMatch(lfds[n].label, SumOfSquares(query, lfds[n].descriptors[1]))
    IN  IF n = 1 THEN curr
        ELSE LET best == matchDescriptor(SubSeq(lfds, 1, n - 1), query)
             IN  IF best._distance < curr._distance THEN best ELSE curr

\* FaceMatcher.findBestMatch: the best match when its distance is below the
\* threshold, FaceMatch('unknown', distance) otherwise.
findBestMatch(lfds, threshold, query) ==
    LET best == matchDescriptor(lfds, query)
    IN  IF best._distance < threshold * threshold THEN best
        ELSE FaceMatch("unknown", best._distance)

\* The threshold getMatches hands to the FaceMatcher (face_recognizer.js:137),
\* and the other field of the recognizer in its place.
MatcherThresholdMinConfidence == minConfidence
MatcherThreshold == distanceThreshold

\* getMatches(detectionResults, labeledFaceDescriptors); the variant keeps
\* the matches that are not 'unknown' only.
getMatchesKnownOnly(results, lfds) ==
    IF FaceMatcherThrows(lfds) THEN [status |-> "threw", value |-> <<>>]
    ELSE [status |-> "returned",
          value |-> SelectSeq([i \in 1..Len(results) |->
                                 findBestMatch(lfds, MatcherThreshold, results[i].descriptor)],
                              LAMBDA m : m._label # "unknown")]
getMatches(results, lfds) ==
    IF FaceMatcherThrows(lfds) THEN [status |-> "threw", value |-> <<>>]
    ELSE [status |-> "returned",
          value |-> [i \in 1..Len(results) |->
                       findBestMatch(lfds, MatcherThreshold, results[i].descriptor)]]

\* The body of the forEach of getMatchedLabels (face_recognizer.js:115-123);
\* the variant pushes every label.
PushAlways(acc, match) == Append(acc, match._label)
PushIfKnown(acc, match) ==
    IF match._label # "unknown" THEN Append(acc, match._label) ELSE acc

\* getMatchedLabels(matches): matchedLabels = []; matches.forEach(...)
RECURSIVE getMatchedLabels(_)
getMatchedLabels(ms) ==
    IF Len(ms) = 0 THEN <<>>
    ELSE PushIfKnown(getMatchedLabels(SubSeq(ms, 1, Len(ms) - 1)), ms[Len(ms)])

\* The canvas calls of drawFaceDetections: the image, then per match the
\* label text and the rectangle of the detection of the same index.
RECURSIVE DrawMatches(_, _, _)
DrawMatches(ms, results, i) ==
    IF i > Len(ms) THEN <<>>
    ELSE LET box == results[i].detection.box
         IN  <<[op |-> "strokeText", text |-> <<ms[i]._label, ms[i]._distance>>,
                x |-> box._x + 10, y |-> box._y - 5, w |-> 0, h |-> 0],
               [op |-> "strokeRect", text |-> <<>>,
                x |-> box._x, y |-> box._y, w |-> box._width, h |-> box._height]>>
             \o DrawMatches(ms, results, i + 1)

\* await recognizer.detect(targetImage): any faces, none included.
Detect(faces) ==
    /\ detectionResults.status = "none"
    /\ detectionResults' = [status |-> "returned", value |-> faces]
    /\ UNCHANGED <<labeledFaceDescriptors, matches, matchedLabels, label, drawn,
                   varsLoad, varsLabel>>

CallDetect == \E faces \in SeqsUpTo(FaceSet, MaxFaces) : Detect(faces)

\* recognizer.getMatches(detectedResults, labeledFaceDescriptors)
GetMatches(lfds) ==
    /\ detectionResults.status = "returned"
    /\ matches.status = "none"
    /\ labeledFaceDescriptors' = lfds
    /\ matches' = getMatches(detectionResults.value, lfds)
    /\ UNCHANGED <<detectionResults, matchedLabels, label, drawn, varsLoad, varsLabel>>

CallGetMatches ==
    /\ matches.status = "none"
    /\ \E lfds \in SeqsUpTo(RefSet, MaxRefs) : GetMatches(lfds)

\* recognizer.getMatchedLabels(matches): the globals matchedLabels and label
\* are written.
GetMatchedLabels ==
    /\ matches.status = "returned"
    /\ matchedLabels.status = "none"
    /\ matchedLabels' = [status |-> "returned", value |-> getMatchedLabels(matches.value)]
    /\ label' = IF Len(matches.value) = 0 THEN label
                ELSE matches.value[Len(matches.value)]._label
    /\ UNCHANGED <<detectionResults, labeledFaceDescriptors, matches, drawn,
                   varsLoad, varsLabel>>

\* await recognizer.drawFaceDetections(matches, detectedResults, targetImage).
\* The last statement calls this.loadImageData, which FaceRecognizer does not
\* define: the call throws a TypeError and the async function rejects.
DrawFaceDetections ==
    /\ matches.status = "returned"
    /\ drawn.status = "none"
    /\ drawn' = [status |-> IF "loadImageData" \in FaceRecognizerMethods
                            THEN "returned" ELSE "threw",
                 canvas |-> <<[op |-> "drawImage", text |-> <<>>,
                               x |-> 0, y |-> 0,
                               w |-> TargetTensor.shape[2], h |-> TargetTensor.shape[1]]>>
                            \o DrawMatches(matches.value, detectionResults.value, 1),
                 original |-> TargetTensor]
    /\ UNCHANGED <<detectionResults, labeledFaceDescriptors, matches, matchedLabels,
                   label, varsLoad, varsLabel>>

NextMatch ==
    \/ CallDetect
    \/ CallGetMatches
    \/ GetMatchedLabels
    \/ DrawFaceDetections

SpecMatch == Init /\ [][NextMatch]_vars

-----------------------------------------------------------------------------
\* Properties of getMatches, getMatchedLabels and drawFaceDetections.

\* The squared distances from detection i to the labeled descriptors.
DistancesOf(i) ==
    {SumOfSquares(detectionResults.value[i].descriptor,
                  labeledFaceDescriptors[k].descriptors[1]) :
       k \in 1..Len(labeledFaceDescriptors)}
Below(d) == d < distanceThreshold * distanceThreshold

\* C4: getMatches returns one match per detection, in detection order:
\* match i carries the least distance from detection i's descriptor to a
\* labeled descriptor, under that descriptor's label or 'unknown'.
C4_OneMatchPerDetection ==
    matches.status = "returned" =>
        /\ Len(matches.value) = Len(detectionResults.value)
        /\ \A i \in 1..Len(matches.value) :
              /\ matches.value[i]._distance \in DistancesOf(i)
              /\ \A d \in DistancesOf(i) : matches.value[i]._distance <= d
              /\ \/ matches.value[i]._label = "unknown"
                 \/ \E k \in 1..Len(labeledFaceDescriptors) :
                       /\ labeledFaceDescriptors[k].label = matches.value[i]._label
                       /\ SumOfSquares(detectionResults.value[i].descriptor,
                                       labeledFaceDescriptors[k].descriptors[1])
                             = matches.value[i]._distance

\* getMatches has returned for two detections, the first matched as
\* 'unknown' and the second under a label, at different distances.
C4_Witness ==
    /\ matches.status = "returned"
    /\ Len(matches.value) = 2
    /\ matches.value[1]._label = "unknown"
    /\ matches.value[2]._label = "cap"
    /\ matches.value[1]._distance # matches.value[2]._distance

\* C5: the label of a match is 'unknown' exactly when no labeled
\* descriptor's distance to the detection's descriptor is below the
\* distance threshold, for every set of labeled descriptors.
C5_UnknownIffNoneBelowThreshold ==
    matches.status = "returned" =>
        \A i \in 1..Len(matches.value) :
            (matches.value[i]._label = "unknown") <=>
                (\A d \in DistancesOf(i) : ~Below(d))

\* C5 as amended: the same, for the sets of labeled descriptors none of which
\* is itself labeled 'unknown'.
C5_UnknownIffNoneBelowThresholdAmended ==
    (/\ matches.status = "returned"
     /\ \A k \in 1..Len(labeledFaceDescriptors) :
           labeledFaceDescriptors[k].label # "unknown") =>
        \A i \in 1..Len(matches.value) :
            (matches.value[i]._label = "unknown") <=>
                (\A d \in DistancesOf(i) : ~Below(d))

\* Two detections against labeled descriptors not labeled 'unknown': the
\* first at exactly the threshold from the nearest one, and 'unknown'; the
\* second below it, and labeled.
C5_Witness ==
    /\ matches.status = "returned"
    /\ \A k \in 1..Len(labeledFaceDescriptors) :
          labeledFaceDescriptors[k].label # "unknown"
    /\ Len(matches.value) = 2
    /\ matches.value[1]._label = "unknown"
    /\ matches.value[1]._distance = distanceThreshold * distanceThreshold
    /\ matches.value[2]._label = "biden"
    /\ Below(matches.value[2]._distance)

\* C6: getMatchedLabels returns the labels of the matches that are not
\* 'unknown', in the order of the matches, and filtering the result again
\* leaves it unchanged.
LabelsOf(ms) == [i \in 1..Len(ms) |-> ms[i]._label]
Known(l) == l # "unknown"
C6_KnownLabelsInOrder ==
    matchedLabels.status = "returned" =>
        /\ matchedLabels.value = SelectSeq(LabelsOf(matches.value), Known)
        /\ \A k \in 1..Len(matchedLabels.value) : matchedLabels.value[k] # "unknown"
        /\ SelectSeq(matchedLabels.value, Known) = matchedLabels.value

\* getMatchedLabels has returned two different labels for three matches,
\* the middle one 'unknown'.
C6_Witness ==
    /\ matchedLabels.status = "returned"
    /\ Len(matches.value) = 3
    /\ matches.value[2]._label = "unknown"
    /\ Len(matchedLabels.value) = 2
    /\ matchedLabels.value[1] # matchedLabels.value[2]

\* C8: drawFaceDetections completes by returning a new tensor, after drawing
\* the image and then a label and a rectangle per match in match order, and
\* the original tensor is unmodified.
C8_DrawReturnsNewTensor ==
    drawn.status # "none" =>
        /\ drawn.status = "returned"
        /\ drawn.original = TargetTensor
        /\ Len(drawn.canvas) = 1 + 2 * Len(matches.value)
        /\ drawn.canvas[1].op = "drawImage"

====
